---- MODULE Spec2Model ----
(***************************************************************************)
(* Model of browser/form.go: the Form built from the input/button          *)
(* elements of a form, its Input, Click and Submit operations and the      *)
(* payload handed to the submit event handler.                             *)
(***************************************************************************)
EXTENDS Integers, Sequences, FiniteSets, TLC

\* Longest scanned element list of a form.
MaxElems == 2

\* Attribute values that occur as element names and as call arguments.
Names == {"", "q"}
\* Values of type attributes.
Types == {"submit", "text"}
\* Values of value attributes.
Vals == {"1", "2"}
\* Values of Input calls: one that occurs as an attribute value, one new.
InputVals == {"1", "x"}
\* What the submit event handler can return.
SinkResults == {"nil", "ErrDispatch"}

\* s.Attr(a) of goquery: (val, ok); val is "" when the attribute is absent.
NoAttr == [ok |-> FALSE, val |-> ""]
AttrOf(S) == {NoAttr} \cup {[ok |-> TRUE, val |-> v] : v \in S}

\* The elements sel.Find("input,button") can return, in document order.
Elements == [name : AttrOf(Names), type : AttrOf(Types), value : AttrOf(Vals)]
Documents == UNION {[1..n -> Elements] : n \in 0..MaxElems}

\* url.Values{} : the empty map from names to value lists.
EmptyValues == [k \in {} |-> <<>>]

\* url.Values.Add: v[key] = append(v[key], value)
Add(v, key, value) ==
  [k \in DOMAIN v \cup {key} |->
     IF k = key
       THEN (IF key \in DOMAIN v THEN Append(v[key], value) ELSE <<value>>)
       ELSE v[k]]

\* url.Values.Set: v[key] = []string{value}
Set(v, key, value) ==
  [k \in DOMAIN v \cup {key} |-> IF k = key THEN <<value>> ELSE v[k]]

\* Visit with a submit element without value left out of buttons.
VisitOmitsEmpty(acc, s) ==
  IF s.name.ok /\ s.type.ok /\ s.value.ok
    THEN IF s.type.val = "submit"
      THEN [acc EXCEPT !.buttons = Add(@, s.name.val, s.value.val)]
      ELSE [acc EXCEPT !.fields = Add(@, s.name.val, s.value.val)]
    ELSE acc

\* The callback of input.Each in serializeForm, applied to one element s.
Visit(acc, s) ==
  IF s.name.ok
    THEN IF s.type.ok
      THEN IF s.type.val = "submit"
        THEN IF s.value.ok
          THEN [acc EXCEPT !.buttons = Add(@, s.name.val, s.value.val)]
          ELSE [acc EXCEPT !.buttons = Add(@, s.name.val, "")]
        ELSE IF s.value.ok
          THEN [acc EXCEPT !.fields = Add(@, s.name.val, s.value.val)]
          ELSE acc
      ELSE acc
    ELSE acc

\* input.Each: visits the elements in document order.
RECURSIVE Each(_, _, _)
Each(input, i, acc) ==
  IF i > Len(input) THEN acc ELSE Each(input, i + 1, Visit(acc, input[i]))

serializeForm(input) ==
  IF Len(input) = 0
    THEN [fields |-> EmptyValues, buttons |-> EmptyValues]
    ELSE Each(input, 1, [fields |-> EmptyValues, buttons |-> EmptyValues])

\* Input that appends the value instead of replacing the values.
InputAppends(f, name, value) ==
  IF name \in DOMAIN f
    THEN [fields |-> Add(f, name, value), err |-> "nil"]
    ELSE [fields |-> f, err |-> "ElementNotFound"]

\* Input that sets the value without looking the name up.
InputUpserts(f, name, value) ==
  [fields |-> Set(f, name, value), err |-> "nil"]

\* Form.Input: the new fields and the returned error.
Input(f, name, value) ==
  IF name \in DOMAIN f
    THEN [fields |-> Set(f, name, value), err |-> "nil"]
    ELSE [fields |-> f, err |-> "ElementNotFound"]

\* send that sets the button pair also when there is no button.
sendAlwaysSets(f, buttonName, buttonValue, r) ==
  LET copy == [name \in DOMAIN f |-> f[name]]
  IN  [fields |-> f, sent |-> <<Set(copy, buttonName, buttonValue)>>,
       ret |-> <<r>>, err |-> r]

\* send that drops the error of the dispatch.
sendSwallows(f, buttonName, buttonValue, r) ==
  LET copy == [name \in DOMAIN f |-> f[name]]
      values == IF buttonName # "" THEN Set(copy, buttonName, buttonValue)
                ELSE copy
  IN  [fields |-> f, sent |-> <<values>>, ret |-> <<r>>, err |-> "nil"]

\* send that builds the payload in f.fields itself instead of in a copy.
sendAliases(f, buttonName, buttonValue, r) ==
  LET values == IF buttonName # "" THEN Set(f, buttonName, buttonValue)
                ELSE f
  IN  [fields |-> values, sent |-> <<values>>, ret |-> <<r>>, err |-> r]

\* Form.send: the fields after the call, the payloads dispatched and the
\* returned error; r is what the submit event handler returns.
send(f, buttonName, buttonValue, r) ==
  LET copy == [name \in DOMAIN f |-> f[name]]
      values == IF buttonName # "" THEN Set(copy, buttonName, buttonValue)
                ELSE copy
  IN  [fields |-> f, sent |-> <<values>>, ret |-> <<r>>, err |-> r]

\* Click that does not look the button up.
ClickUnchecked(f, b, button, r) ==
  send(f, button, IF button \in DOMAIN b THEN b[button][1] ELSE "", r)

\* Form.Click
Click(f, b, button, r) ==
  IF button \notin DOMAIN b
    THEN [fields |-> f, sent |-> <<>>, ret |-> <<>>,
          err |-> "InvalidFormValue"]
    ELSE send(f, button, b[button][1], r)

\* Submit that never clicks a button.
SubmitWithoutButton(f, b, name, r) == send(f, "", "", r)

\* Form.Submit: name is the key the range over f.buttons yields first.
Submit(f, b, name, r) ==
  IF Cardinality(DOMAIN b) > 0
    THEN Click(f, b, name, r)
    ELSE send(f, "", "", r)

VARIABLES
  elements,  \* the scanned elements of the form (sel.Find("input,button"))
  fields,    \* Form.fields
  buttons,   \* Form.buttons
  last,      \* the last call: operation, arguments, dispatches, result
  failed     \* whether some earlier dispatch returned an error

vars == <<elements, fields, buttons, last, failed>>

\* NewForm
Init ==
  /\ elements \in Documents
  /\ fields = serializeForm(elements).fields
  /\ buttons = serializeForm(elements).buttons
  /\ last = [op |-> "NewForm", name |-> "", value |-> "",
             sent |-> <<>>, ret |-> <<>>, err |-> "nil"]
  /\ failed = FALSE

CallInput ==
  \E name \in Names, value \in InputVals :
    LET out == Input(fields, name, value) IN
    /\ fields' = out.fields
    /\ last' = [op |-> "Input", name |-> name, value |-> value,
                sent |-> <<>>, ret |-> <<>>, err |-> out.err]
    /\ failed' = (failed \/ (last.ret # <<>> /\ last.err # "nil"))
    /\ UNCHANGED <<elements, buttons>>

CallClick ==
  \E button \in Names, r \in SinkResults :
    LET out == Click(fields, buttons, button, r) IN
    /\ last' = [op |-> "Click", name |-> button, value |-> "",
                sent |-> out.sent, ret |-> out.ret, err |-> out.err]
    /\ fields' = out.fields
    /\ failed' = (failed \/ (last.ret # <<>> /\ last.err # "nil"))
    /\ UNCHANGED <<elements, buttons>>

\* The button Submit clicks: any key of buttons (Go map iteration order).
RangeFirst(b) == IF DOMAIN b = {} THEN {""} ELSE DOMAIN b

CallSubmit ==
  \E name \in RangeFirst(buttons), r \in SinkResults :
    LET out == Submit(fields, buttons, name, r) IN
    /\ last' = [op |-> "Submit", name |-> name, value |-> "",
                sent |-> out.sent, ret |-> out.ret, err |-> out.err]
    /\ fields' = out.fields
    /\ failed' = (failed \/ (last.ret # <<>> /\ last.err # "nil"))
    /\ UNCHANGED <<elements, buttons>>

Next == CallInput \/ CallClick \/ CallSubmit

Spec == Init /\ [][Next]_vars

(***************************************************************************)
(* The classification of elements, stated per name and independently of    *)
(* the scan.                                                               *)
(***************************************************************************)
IsButton(e) == e.name.ok /\ e.type.ok /\ e.type.val = "submit"
IsField(e) == e.name.ok /\ e.type.ok /\ e.type.val # "submit" /\ e.value.ok

ButtonValues(doc, n) ==
  LET sel == SelectSeq(doc, LAMBDA e : IsButton(e) /\ e.name.val = n)
  IN  [i \in 1..Len(sel) |-> IF sel[i].value.ok THEN sel[i].value.val ELSE ""]

FieldValues(doc, n) ==
  LET sel == SelectSeq(doc, LAMBDA e : IsField(e) /\ e.name.val = n)
  IN  [i \in 1..Len(sel) |-> sel[i].value.val]

ButtonNames(doc) == {doc[i].name.val : i \in {j \in DOMAIN doc : IsButton(doc[j])}}
FieldNames(doc) == {doc[i].name.val : i \in {j \in DOMAIN doc : IsField(doc[j])}}

ExpectedButtons(doc) == [n \in ButtonNames(doc) |-> ButtonValues(doc, n)]
ExpectedFields(doc) == [n \in FieldNames(doc) |-> FieldValues(doc, n)]

\* The name of the first submit element of the document that has a name.
FirstButton(doc) ==
  LET i == CHOOSE j \in DOMAIN doc :
             IsButton(doc[j]) /\ \A k \in 1..(j - 1) : ~IsButton(doc[k])
  IN  doc[i].name.val

\* The payload of a click on button n: n maps to the first value of b[n],
\* every other name to its values in f.
ClickPayload(f, b, n) ==
  [k \in DOMAIN f \cup {n} |-> IF k = n THEN <<b[n][1]>> ELSE f[k]]

\* The step is a call of Click with a key of buttons.
ClickKnown == last'.op = "Click" /\ last'.name \in DOMAIN buttons
\* The step is a call of Click with a name that is no key of buttons.
ClickUnknown == last'.op = "Click" /\ last'.name \notin DOMAIN buttons

\* C1: Click(b) with b a key of buttons dispatches a payload that maps b to
\* the one-element list of the first value of buttons[b] and every other
\* name to its current values in fields, and nothing else.
C1_ClickPayload ==
  [][ClickKnown => last'.sent = <<ClickPayload(fields, buttons, last'.name)>>]_vars

\* C2: Click(b) with b no key of buttons returns InvalidFormValue, dispatches
\* nothing and leaves fields and buttons as they were.
C2_ClickUnknownFails ==
  [][ClickUnknown =>
       /\ last'.err = "InvalidFormValue"
       /\ last'.sent = <<>>
       /\ last'.ret = <<>>
       /\ fields' = fields
       /\ buttons' = buttons]_vars

C2_Witness ==
  /\ last.op = "Click"
  /\ last.name \notin DOMAIN buttons
  /\ last.name \in DOMAIN fields
  /\ DOMAIN buttons # {}
  /\ last.err = "InvalidFormValue"

\* C3: Input(name, value) with name a key of fields succeeds, leaves
\* fields[name] = <<value>>, keeps every other key's values and neither adds
\* nor removes a key.
C3_InputReplaces ==
  [][(last'.op = "Input" /\ last'.name \in DOMAIN fields) =>
       /\ last'.err = "nil"
       /\ DOMAIN fields' = DOMAIN fields
       /\ fields'[last'.name] = <<last'.value>>
       /\ \A k \in DOMAIN fields \ {last'.name} : fields'[k] = fields[k]]_vars

C3_Witness ==
  /\ last.op = "Input"
  /\ last.err = "nil"
  /\ Len(FieldValues(elements, last.name)) = 2
  /\ fields[last.name] = <<last.value>>

\* C4: Input(name, value) with name no key of fields returns ElementNotFound
\* and leaves fields unchanged; the key set of fields is always the one
\* construction produced.
C4_InputUnknownFails ==
  /\ [](DOMAIN fields = FieldNames(elements))
  /\ [][(last'.op = "Input" /\ last'.name \notin DOMAIN fields) =>
          /\ last'.err = "ElementNotFound"
          /\ fields' = fields]_vars

C4_Witness ==
  /\ last.op = "Input"
  /\ last.err = "ElementNotFound"
  /\ last.name \in DOMAIN buttons
  /\ last.name \notin DOMAIN fields
  /\ DOMAIN fields # {}

\* C5: Submit() on a form without buttons dispatches exactly once, and the
\* payload is exactly the current fields.
C5_SubmitNoButtons ==
  [][(last'.op = "Submit" /\ DOMAIN buttons = {}) =>
       last'.sent = <<fields>>]_vars

C5_Witness ==
  /\ last.op = "Submit"
  /\ DOMAIN buttons = {}
  /\ fields # ExpectedFields(elements)
  /\ last.sent = <<fields>>

\* C6: Submit() on a form with buttons dispatches and returns what Click(b)
\* does for some key b of buttons, and for the only key when there is one.
C6_SubmitIsClick ==
  [][(last'.op = "Submit" /\ DOMAIN buttons # {}) =>
       /\ Len(last'.ret) = 1
       /\ \E b \in DOMAIN buttons :
            LET c == Click(fields, buttons, b, last'.ret[1])
            IN  last'.sent = c.sent /\ last'.err = c.err
       /\ Cardinality(DOMAIN buttons) = 1 =>
            \A b \in DOMAIN buttons :
              last'.sent = Click(fields, buttons, b, last'.ret[1]).sent]_vars

C6_Witness ==
  /\ last.op = "Submit"
  /\ Cardinality(DOMAIN buttons) = 1
  /\ last.name # ""
  /\ last.sent = <<ClickPayload(fields, buttons, last.name)>>

\* C7: Submit() on a form with several button names always dispatches what a
\* click on the first submit element in document order dispatches.
C7_SubmitFirstButton ==
  [][(last'.op = "Submit" /\ Cardinality(DOMAIN buttons) > 1) =>
       last'.sent = Click(fields, buttons, FirstButton(elements), "nil").sent]_vars

\* C8: construction puts the values of the named submit elements into
\* buttons ("" for a missing value) and those of the named, typed,
\* non-submit elements with a value into fields, in document order, and
\* nothing else; without an element with name and type both are empty.
C8_Classification ==
  last.op = "NewForm" =>
    /\ buttons = ExpectedButtons(elements)
    /\ fields = ExpectedFields(elements)
    /\ (\A i \in DOMAIN elements : ~(elements[i].name.ok /\ elements[i].type.ok))
         => (fields = EmptyValues /\ buttons = EmptyValues)

C8_Witness ==
  /\ last.op = "NewForm"
  /\ \E n \in DOMAIN buttons : buttons[n] = <<"">>
  /\ DOMAIN fields # {}

\* C9: every Click on a key of buttons and every Submit dispatches exactly
\* once and returns what that dispatch returned, also after a failed one.
C9_ResultPropagated ==
  [][(ClickKnown \/ last'.op = "Submit") =>
       /\ Len(last'.sent) = 1
       /\ Len(last'.ret) = 1
       /\ last'.err = last'.ret[1]]_vars

C9_Witness ==
  /\ failed
  /\ last.op \in {"Click", "Submit"}
  /\ Len(last.sent) = 1
  /\ last.err = "nil"

\* C10: buttons is always the mapping construction produced, and fields
\* changes only across a successful Input.
C10_Frame ==
  /\ [](buttons = ExpectedButtons(elements))
  /\ [][/\ buttons' = buttons
        /\ fields' # fields => (last'.op = "Input" /\ last'.err = "nil")]_vars

C10_Witness ==
  /\ last.op = "Click"
  /\ last.name \in DOMAIN buttons \cap DOMAIN fields
  /\ Len(last.sent) = 1
  /\ last.sent[1] # fields

====
